---- MODULE Spec2Model ----
(***************************************************************************)
(* A model of soccerdata/sofifa.py: the SoFIFA reader (construction with a *)
(* version selector, read_versions, read_leagues, read_teams,              *)
(* read_players, read_team_ratings, read_player_ratings) and the helper    *)
(* remove_currency.                                                        *)
(*                                                                         *)
(* Python strings whose characters matter (currency texts, the             *)
(* biographical line, node texts) are sequences of one-character strings.  *)
(* Python ints of unbounded size and IEEE-754 doubles are modelled on      *)
(* sequences of limbs and bits, so that no width of the model checker's    *)
(* integers leaks into the arithmetic of the program.                      *)
(***************************************************************************)
EXTENDS Integers, Sequences, FiniteSets, TLC

VARIABLES
    site,       \* the documents the website serves (the program's input)
    selected,   \* keys of self._selected_leagues, in dict order
    versions,   \* self.versions: rows [version_id, fifa_edition, update]
    phase,      \* "new" before __init__, "ready" after it, "failed" if it raised
    cache,      \* files of data_dir: cache path -> URL the stored document came from
    result,     \* outcome of the last call (its table or its error, and its get calls)
    cur_in,     \* argument of remove_currency, and whether it is one of its results
    cur_out     \* what remove_currency returned for cur_in

vars == <<site, selected, versions, phase, cache, result, cur_in, cur_out>>

(***************************************************************************)
(* Bounds of the model.                                                    *)
(***************************************************************************)
MaxBody == 3        \* characters of the numeric body of a currency text
MaxVersion == 2     \* version ids are 1..MaxVersion
MaxUpdates == 2     \* options listed by the update selector of one edition
MaxListed == 2      \* length of a list given as the versions selector
MaxTeam == 2        \* team ids are 1..MaxTeam
MaxNodes == 2       \* <em> nodes one strategy finds for one label

(***************************************************************************)
(* Generic helpers.                                                        *)
(***************************************************************************)
None == "None"      \* Python's None

SeqsUpTo(S, n) == UNION {[1..k -> S] : k \in 0..n}

Range(s) == {s[i] : i \in 1..Len(s)}

RECURSIVE Pow10(_)
Pow10(k) == IF k = 0 THEN 1 ELSE 10 * Pow10(k - 1)

(***************************************************************************)
(* Unbounded naturals (Python ints) as little-endian sequences of limbs in *)
(* base 2^15 (<<>> is zero, the last limb of a non-zero number is not 0),  *)
(* and their bits as little-endian sequences of 0 and 1.                   *)
(***************************************************************************)
LimbBits == 15

RECURSIVE Pow2(_)
Pow2(k) == IF k = 0 THEN 1 ELSE 2 * Pow2(k - 1)

Base == Pow2(LimbBits)

RECURSIVE NatLimbs(_)
NatLimbs(n) == IF n = 0 THEN <<>> ELSE <<n % Base>> \o NatLimbs(n \div Base)

RECURSIVE Trim(_)
Trim(b) == IF b = <<>> THEN <<>>
           ELSE IF b[Len(b)] = 0 THEN Trim(SubSeq(b, 1, Len(b) - 1))
           ELSE b

\* b * c + a for naturals 0 < c < 2^15 and a < 2^15
RECURSIVE MulAdd(_, _, _)
MulAdd(b, c, a) ==
    IF b = <<>> THEN NatLimbs(a)
    ELSE <<(Head(b) * c + a) % Base>>
         \o MulAdd(Tail(b), c, (Head(b) * c + a) \div Base)

\* long division of the limbs 1..i of b by d < 2^15, with incoming remainder r
RECURSIVE DivStep(_, _, _, _)
DivStep(b, d, i, r) ==
    IF i = 0 THEN <<r>>
    ELSE DivStep(b, d, i - 1, (r * Base + b[i]) % d) \o <<(r * Base + b[i]) \div d>>

\* [q, r] with b = q * d + r: DivStep yields the remainder, then q's limbs
DivMod(b, d) == LET x == DivStep(b, d, Len(b), 0)
                IN  [q |-> Trim(Tail(x)), r |-> Head(x)]

Zeros(n) == [i \in 1..n |-> 0]

RECURSIVE SmallBitLen(_)
SmallBitLen(n) == IF n = 0 THEN 0 ELSE 1 + SmallBitLen(n \div 2)

BitLen(b) == IF b = <<>> THEN 0
             ELSE LimbBits * (Len(b) - 1) + SmallBitLen(b[Len(b)])

\* bit i (from 0) of b
Bit(b, i) == (b[(i \div LimbBits) + 1] \div Pow2(i % LimbBits)) % 2

ToBits(b) == [i \in 1..BitLen(b) |-> Bit(b, i - 1)]

\* the value of bits lo..hi of the bit sequence s (missing bits are 0)
RECURSIVE BitsValue(_, _, _)
BitsValue(s, lo, hi) ==
    IF lo > hi \/ lo > Len(s) THEN 0 ELSE s[lo] + 2 * BitsValue(s, lo + 1, hi)

FromBits(s) ==
    Trim([j \in 1..((Len(s) + LimbBits - 1) \div LimbBits) |->
            BitsValue(s, LimbBits * (j - 1) + 1, LimbBits * j)])

(***************************************************************************)
(* Characters and decimal strings.                                         *)
(***************************************************************************)
DigitChars == {"0", "1", "2", "3", "4", "5", "6", "7", "8", "9"}

DigitVal(c) == CASE c = "0" -> 0 [] c = "1" -> 1 [] c = "2" -> 2 [] c = "3" -> 3
                 [] c = "4" -> 4 [] c = "5" -> 5 [] c = "6" -> 6 [] c = "7" -> 7
                 [] c = "8" -> 8 [] c = "9" -> 9

DigitChar(n) == CASE n = 0 -> "0" [] n = 1 -> "1" [] n = 2 -> "2" [] n = 3 -> "3"
                  [] n = 4 -> "4" [] n = 5 -> "5" [] n = 6 -> "6" [] n = 7 -> "7"
                  [] n = 8 -> "8" [] n = 9 -> "9"

\* int(ds) for a sequence of digit characters, continuing from acc
RECURSIVE DigitsToNat(_, _)
DigitsToNat(ds, acc) ==
    IF ds = <<>> THEN acc
    ELSE DigitsToNat(Tail(ds), MulAdd(acc, 10, DigitVal(Head(ds))))

\* str(n) for a Python int n >= 0
RECURSIVE NatToDecimal(_)
NatToDecimal(b) ==
    IF DivMod(b, 10).q = <<>> THEN <<DigitChar(DivMod(b, 10).r)>>
    ELSE NatToDecimal(DivMod(b, 10).q) \o <<DigitChar(DivMod(b, 10).r)>>

(***************************************************************************)
(* IEEE-754 binary64 (CPython's float), for non-negative finite values in  *)
(* the normal range: [m, x] is the value m * 2^x with m a sequence of      *)
(* exactly 53 bits whose last is 1; zero is [m |-> <<>>, x |-> 0].         *)
(***************************************************************************)
Mantissa == 53

\* round-to-nearest-even of (q + f) * 2^x to 53 bits, where q is a bit
\* sequence, 0 <= f < 1 and sticky tells whether f > 0
Round53(q, x, sticky) ==
    IF q = <<>> THEN [m |-> <<>>, x |-> 0]
    ELSE IF Len(q) <= Mantissa
         THEN [m |-> Zeros(Mantissa - Len(q)) \o q, x |-> x - (Mantissa - Len(q))]
    ELSE LET t     == Len(q) - Mantissa
             kept  == SubSeq(q, t + 1, Len(q))
             low   == sticky \/ (\E i \in 1..(t - 1) : q[i] = 1)
             up    == q[t] = 1 /\ (low \/ kept[1] = 1)
             m1    == IF up THEN ToBits(MulAdd(FromBits(kept), 1, 1)) ELSE kept
         IN  IF Len(m1) > Mantissa
             THEN [m |-> SubSeq(m1, 2, Len(m1)), x |-> x + t + 1]
             ELSE [m |-> m1, x |-> x + t]

\* [q, sticky]: q = floor(n / 10^k), sticky iff the division left a remainder
RECURSIVE DivPow10(_, _, _)
DivPow10(n, k, sticky) ==
    IF k = 0 THEN [q |-> n, sticky |-> sticky]
    ELSE DivPow10(DivMod(n, 10).q, k - 1, sticky \/ DivMod(n, 10).r # 0)

\* the double nearest to n / 10^k (float() of a decimal literal of k decimals)
FloatOfDecimal(n, k) ==
    LET sh == 64 + 4 * k
        x  == DivPow10(FromBits(Zeros(sh) \o ToBits(n)), k, FALSE)
    IN  IF n = <<>> THEN [m |-> <<>>, x |-> 0]
        ELSE Round53(ToBits(x.q), 0 - sh, x.sticky)

\* f * c for a float f and the Python int c, one of 1000 and 1000000
FloatTimes(f, c) ==
    LET p == IF c <= 1000 THEN MulAdd(FromBits(f.m), c, 0)
             ELSE MulAdd(MulAdd(FromBits(f.m), 1000, 0), c \div 1000, 0)
    IN  Round53(ToBits(p), f.x, FALSE)

\* int(f): truncation toward zero
FloatToInt(f) ==
    IF f.m = <<>> THEN <<>>
    ELSE IF f.x >= 0 THEN FromBits(Zeros(f.x) \o f.m)
    ELSE IF 0 - f.x >= Len(f.m) THEN <<>>
    ELSE FromBits(SubSeq(f.m, 1 - f.x, Len(f.m)))

(***************************************************************************)
(* remove_currency (sofifa.py 533-541).  The result is [ok, val]: the      *)
(* returned string, or the exception raised.                               *)
(***************************************************************************)
IsNumChar(c) == c \in DigitChars \cup {"."}

\* re.sub(r'[^\d\.]', '', s)
DigitalPart(s) == SelectSeq(s, IsNumChar)

Dots(d) == {i \in 1..Len(d) : d[i] = "."}

\* what float() accepts of a string of digits and points
FloatParses(d) == Cardinality(Dots(d)) <= 1 /\ (\E i \in 1..Len(d) : d[i] # ".")

\* float(d) for such a string
ParseFloat(d) ==
    LET NotPoint(c) == c # "."
        k == IF Dots(d) = {} THEN 0 ELSE Len(d) - (CHOOSE i \in Dots(d) : TRUE)
    IN  FloatOfDecimal(DigitsToNat(SelectSeq(d, NotPoint), <<>>), k)

Contains(s, c) == \E i \in 1..Len(s) : s[i] = c

Multiplier(s) == IF Contains(s, "M") THEN 1000000
                 ELSE IF Contains(s, "K") THEN 1000
                 ELSE 1

remove_currency(s) ==
    IF s = None THEN [ok |-> FALSE, val |-> "TypeError"]
    ELSE IF ~FloatParses(DigitalPart(s)) THEN [ok |-> FALSE, val |-> "ValueError"]
    ELSE LET val == ParseFloat(DigitalPart(s))
         IN  [ok  |-> TRUE,
              val |-> NatToDecimal(FloatToInt(
                        IF Multiplier(s) = 1 THEN val
                        ELSE FloatTimes(val, Multiplier(s))))]

(***************************************************************************)
(* The reader.  A document is identified by the URL it was requested       *)
(* with; Document(url) below is what the site serves for it.  A URL is the *)
(* tuple of its mask and the values formatted into it, a cache path        *)
(* likewise.                                                               *)
(***************************************************************************)
SO_FIFA_API == "https://sofifa.com"

MAXAGE == "MAXAGE"

\* the cache: whether documents are kept (not so under no_cache and
\* no_store), and the files of data_dir, path -> URL of the document stored
EmptyCache == [store |-> TRUE, files |-> <<>>]

NoStore == [store |-> FALSE, files |-> <<>>]

\* self.get(url, filepath, max_age): the URL of the document handed back.
\* A file already stored under the path is served as it is; a document
\* older than max_age is fetched again from the same path's URL.
Served(c, url, path) ==
    IF path \in DOMAIN c.files THEN c.files[path] ELSE url

RECURSIVE StoreAll(_, _)
StoreAll(c, gets) ==
    IF ~c.store \/ gets = <<>> THEN c
    ELSE LET g == Head(gets)
             c1 == IF g.path \in DOMAIN c.files THEN c
                   ELSE [store |-> TRUE,
                         files |-> [p \in DOMAIN c.files \cup {g.path} |->
                                      IF p = g.path THEN g.url ELSE c.files[p]]]
         IN  StoreAll(c1, Tail(gets))

GetCall(url, path, max_age) == [url |-> url, path |-> path, max_age |-> max_age]

\* the outcome of a call: the table returned (rows in order) or the
\* exception raised, the self.get calls made and the entity parsers entered
Returned(call, rows, gets, calls) ==
    [call |-> call, ok |-> TRUE, err |-> None, rows |-> rows, gets |-> gets,
     calls |-> calls]

Raised(call, err, gets, calls) ==
    [call |-> call, ok |-> FALSE, err |-> err, rows |-> <<>>, gets |-> gets,
     calls |-> calls]

\* the outcome r of a call, with the arguments the call was given
Outcome(r, args) ==
    [call |-> r.call, args |-> args, ok |-> r.ok, err |-> r.err, rows |-> r.rows,
     gets |-> r.gets, calls |-> r.calls]

NoCall == Outcome(Returned(None, <<>>, <<>>, <<>>), <<>>)

\* F(v), with v evaluated once
With(v, F(_)) == CHOOSE y \in {F(x) : x \in {v}} : TRUE

\* a list built by a comprehension over 1..n
List(f) == f \o <<>>

(***************************************************************************)
(* DataFrame.sort_index(): rows ordered by their index.  For tables of the *)
(* sizes reached here the sort of the build places rows of equal index in  *)
(* their original order.                                                   *)
(***************************************************************************)
SortRows(rows, Leq(_, _)) ==
    LET r == rows \o <<>>
        n == Len(r)
        Before(j, i) == Leq(r[j], r[i]) /\ (~Leq(r[i], r[j]) \/ j < i)
        Pos(i) == Cardinality({j \in 1..n : Before(j, i)}) + 1
    IN  [p \in 1..n |-> r[CHOOSE i \in 1..n : Pos(i) = p]]

RECURSIVE Flatten(_)
Flatten(ss) == IF ss = <<>> THEN <<>> ELSE Head(ss) \o Flatten(Tail(ss))

(***************************************************************************)
(* read_versions (sofifa.py 118-161).  The home document lists the FIFA    *)
(* editions; the document of each edition lists its updates.  An option    *)
(* of the update selector is [href, text]; its href is <<"/?r=", n>>, or   *)
(* <<"/">> when it holds no "r=<digits>".                                  *)
(***************************************************************************)
IndexPath == <<"index.html">>

UpdatesPath(fifa_edition) == <<"updates_{}.html", fifa_edition>>

\* SO_FIFA_API + node_fifa_edition.get("value")
EditionUrl(fifa_edition) == <<SO_FIFA_API, "edition", fifa_edition>>

VersionIdLeq(a, b) == a.version_id <= b.version_id

\* the get calls of read_versions up to and including edition number n
VersionGets(home, n) ==
    <<GetCall(<<SO_FIFA_API>>, IndexPath, MAXAGE)>>
    \o [i \in 1..n |-> GetCall(EditionUrl(home[i]), UpdatesPath(home[i]),
                               IF i = 1 THEN MAXAGE ELSE None)]

\* re.search(r"r=(\d+)", href): whether it matches, and int(group(1))
HrefMatches(href) == Len(href) = 2

VersionIdOfHref(href) == href[2]

\* the rows appended for one edition
EditionRows(s, e) ==
    [j \in 1..Len(s.updates[e]) |->
        [version_id |-> VersionIdOfHref(s.updates[e][j].href), fifa_edition |-> e,
         update |-> s.updates[e][j].text]]

\* re.search(r"r=(\d+)", href) found nothing: .group raises AttributeError
BadEditions(s) ==
    {i \in 1..Len(s.home) :
        \E j \in 1..Len(s.updates[s.home[i]]) :
            ~HrefMatches(s.updates[s.home[i]][j].href)}

Min(S) == CHOOSE x \in S : \A y \in S : x <= y

read_versions(s) ==
    LET home == s.home
        all  == Flatten([i \in 1..Len(home) |-> EditionRows(s, home[i])])
    IN  IF BadEditions(s) # {}
        THEN Raised("read_versions", "AttributeError",
                    VersionGets(home, Min(BadEditions(s))), <<"read_versions">>)
        ELSE IF all = <<>>
        THEN Raised("read_versions", "KeyError", VersionGets(home, Len(home)),
                    <<"read_versions">>)
        ELSE Returned("read_versions", SortRows(all, VersionIdLeq),
                      VersionGets(home, Len(home)), <<"read_versions">>)

(***************************************************************************)
(* __init__ (sofifa.py 58-85).  A selector is [kind, val]: kind "str",     *)
(* "int", "list" (a list of ints), "strlist" (a list holding a non-int)    *)
(* or "float".                                                             *)
(***************************************************************************)
\* a tail that keeps the first row instead of the last
TailOne_first(rows) == IF rows = <<>> THEN <<>> ELSE <<rows[1]>>

\* DataFrame.tail(n=1)
TailOne(rows) == IF rows = <<>> THEN <<>> ELSE <<rows[Len(rows)]>>

\* the rows of the table whose index is v, in table order
RowsAt(rows, v) == LET Is(r) == r.version_id = v IN SelectSeq(rows, Is)

\* DataFrame.loc[list]: the rows of each label in turn
LocList(rows, vs) == Flatten([i \in 1..Len(vs) |-> RowsAt(rows, vs[i])])

\* .loc raises KeyError when a label of the list is not in the index
LocMissing(rows, vs) == \E i \in 1..Len(vs) : RowsAt(rows, vs[i]) = <<>>

Select(sel, rv) ==
    IF ~rv.ok THEN Raised("__init__", rv.err, rv.gets, rv.calls)
    ELSE IF sel.kind = "str" /\ sel.val = "latest"
         THEN Returned("__init__", TailOne(rv.rows), rv.gets, rv.calls)
    ELSE IF sel.kind = "str" /\ sel.val = "all"
         THEN Returned("__init__", rv.rows, rv.gets, rv.calls)
    ELSE LET vs == IF sel.kind = "int" THEN <<sel.val>> ELSE sel.val
         IN  IF LocMissing(rv.rows, vs)
             THEN Raised("__init__", "KeyError", rv.gets, rv.calls)
             ELSE Returned("__init__", LocList(rv.rows, vs), rv.gets, rv.calls)

SelectorReadsVersions(sel) ==
    \/ sel.kind = "str" /\ sel.val \in {"latest", "all"}
    \/ sel.kind \in {"int", "list"}

\* a construction that reads the versions before it looks at the selector
Construct_reading(s, sel) ==
    IF SelectorReadsVersions(sel) THEN Select(sel, read_versions(s))
    ELSE Raised("__init__", "ValueError", read_versions(s).gets, read_versions(s).calls)

Construct(s, sel) ==
    IF SelectorReadsVersions(sel) THEN Select(sel, read_versions(s))
    ELSE Raised("__init__", "ValueError", <<>>, <<>>)

(***************************************************************************)
(* Names.  Python compares strings by code point; StrRank gives the place  *)
(* of each name of the model in that order (NaN sorts last).               *)
(***************************************************************************)
NaN == "NaN"

StrRank(x) ==
    CASE x = "Arsenal" -> 1 [] x = "Chelsea" -> 2 [] x = "ENG-Premier League" -> 3
      [] x = "ESP-La Liga" -> 4 [] x = "Everton" -> 5 [] x = "Nonexistent FC" -> 6
      [] x = "Spurs" -> 7 [] x = "Tottenham" -> 8 [] x = NaN -> 99

\* TEAMNAME_REPLACEMENTS of _config, as used by DataFrame.replace
ReplaceTeamName(name) == IF name = "Spurs" THEN "Tottenham" ELSE name

\* add_standardized_team_name of _common: the names given and their
\* standard forms
add_standardized_team_name(team) ==
    Range(team) \cup {ReplaceTeamName(x) : x \in Range(team)}

\* _translate_league of the base reader: the canonical league ID of a
\* source league name "[nation] name", NaN for a league with none
TranslateLeague(child) ==
    IF child.nationName = "England" /\ child.value = "Premier League"
    THEN "ENG-Premier League"
    ELSE IF child.nationName = "Spain" /\ child.value = "La Liga"
    THEN "ESP-La Liga"
    ELSE NaN

(***************************************************************************)
(* read_leagues (sofifa.py 87-116).                                        *)
(***************************************************************************)
LeaguesPath == <<"leagues.json">>

LeaguesUrl == <<SO_FIFA_API, "/api/league">>

LeagueLeq(a, b) == StrRank(a.league) <= StrRank(b.league)

read_leagues(s, sel) ==
    LET gets   == <<GetCall(LeaguesUrl, LeaguesPath, None)>>
        childs == Flatten(s.directory)
        table  == SortRows([i \in 1..Len(childs) |->
                              [league |-> TranslateLeague(childs[i]),
                               league_id |-> childs[i].id]], LeagueLeq)
        At(l)  == LET Is(r) == r.league = l IN SelectSeq(table, Is)
    IN  IF childs = <<>> \/ (\E i \in 1..Len(sel) : At(sel[i]) = <<>>)
        THEN Raised("read_leagues", "KeyError", gets, <<"read_leagues">>)
        ELSE Returned("read_leagues", Flatten([i \in 1..Len(sel) |-> At(sel[i])]),
                      gets, <<"read_leagues">>)

(***************************************************************************)
(* The team listing of a league in a version, and read_teams (sofifa.py    *)
(* 163-212).  s.league_of[v][t] is the league_id team t plays in at        *)
(* version v; the listing shows the teams of the league, highest id first. *)
(***************************************************************************)
TeamsMask == "/teams?lg={}&r={}&set=true"

TeamsPath(league_id, version_id) == <<"teams_{}_{}.html", league_id, version_id>>

TeamNames == <<"Spurs", "Chelsea", "Arsenal", "Everton">>

TeamHref(t) == <<"/team/", t, "/", TeamNames[t], "/">>

\* int(re.search(r"\/team\/(\d+)\/[\w-]+\/", href).group(1))
TeamIdOfHref(href) == href[2]

RECURSIVE Descending(_)
Descending(S) ==
    IF S = {} THEN <<>>
    ELSE LET m == CHOOSE x \in S : \A y \in S : y <= x
         IN  <<m>> \o Descending(S \ {m})

\* the rows //table/tbody/tr of the document served for a teams URL; the
\* rating cells are there when the URL asked for the columns
TeamsDocument(s, url) ==
    LET ids == Descending({t \in DOMAIN s.league_of[url[3]] :
                              s.league_of[url[3]][t] = url[2]})
    IN  [i \in 1..Len(ids) |->
            [href |-> TeamHref(ids[i]), text |-> TeamNames[ids[i]],
             cols |-> url[1] # TeamsMask]]

\* product(a.iterrows(), b.iterrows()) as a sequence of pairs
Product(a, b) ==
    [k \in 1..(Len(a) * Len(b)) |->
        <<a[((k - 1) \div Len(b)) + 1], b[((k - 1) % Len(b)) + 1]>>]

TeamsGets(mask, pairs) ==
    [k \in 1..Len(pairs) |->
        GetCall(<<mask, pairs[k][1].league_id, pairs[k][2].version_id>>,
                TeamsPath(pairs[k][1].league_id, pairs[k][2].version_id), None)]

read_teams(s, sel, vers, c) ==
    With(read_leagues(s, sel), LAMBDA rl :
    With(List(Product(rl.rows, vers)), LAMBDA pairs :
    With(rl.gets \o TeamsGets(TeamsMask, pairs), LAMBDA gets :
    LET calls == <<"read_teams">> \o rl.calls
        Rows(k) ==
            LET doc == TeamsDocument(s, Served(c, gets[k + 1].url, gets[k + 1].path))
            IN  [i \in 1..Len(doc) |->
                    [team_id |-> TeamIdOfHref(doc[i].href),
                     team |-> ReplaceTeamName(doc[i].text),
                     league |-> pairs[k][1].league,
                     fifa_edition |-> pairs[k][2].fifa_edition,
                     update |-> pairs[k][2].update]]
        teams == Flatten([k \in 1..Len(pairs) |-> Rows(k)])
    IN  IF ~rl.ok THEN Raised("read_teams", rl.err, rl.gets, calls)
        ELSE IF teams = <<>> THEN Raised("read_teams", "KeyError", gets, calls)
        ELSE Returned("read_teams", teams, gets, calls))))

(***************************************************************************)
(* read_players (sofifa.py 214-285).  team is None or a list of names. The *)
(* roster page of team t lists one player, whose id is t's.                *)
(***************************************************************************)
PlayersMask == "/team/{}/?r={}&set=true"

PlayersPath(team_id, version_id) == <<"players_{}_{}.html", team_id, version_id>>

PlayerNames == <<<<"S", "o", "n">>, <<"P", "a", "l", "m", "e", "r">>,
                 <<"S", "a", "k", "a">>, <<"P", "i", "c", "k", "f", "o", "r", "d">>>>

\* the anchors .//td[2]/a[contains(@href,'/player/')] of the first
\* //article/table of the document served for a roster URL
RosterDocument(s, url) ==
    <<[href |-> <<"/player/", url[2], "/", PlayerNames[url[2]], "/">>,
       tippy |-> PlayerNames[url[2]]]>>

\* int(re.search(r"\/player\/(\d+)\/[\w-]+\/", href).group(1))
PlayerIdOfHref(href) == href[2]

\* a filter that keeps every team
FilterTeams_all(rows, team) == rows

\* df_teams.loc[df_teams.team.isin(teams_to_check), :]
FilterTeams(rows, team) ==
    LET Is(r) == r.team \in add_standardized_team_name(team)
    IN  IF team = None THEN rows ELSE SelectSeq(rows, Is)

PlayersGets(pairs) ==
    [k \in 1..Len(pairs) |->
        GetCall(<<PlayersMask, pairs[k][2].team_id, pairs[k][1].version_id>>,
                PlayersPath(pairs[k][2].team_id, pairs[k][1].version_id), None)]

PlayerRows(s, c, pairs) ==
    With(List(PlayersGets(pairs)), LAMBDA gets :
    LET Rows(k) ==
            LET doc == RosterDocument(s, Served(c, gets[k].url, gets[k].path))
            IN  [i \in 1..Len(doc) |->
                    [player_id |-> PlayerIdOfHref(doc[i].href),
                     player |-> doc[i].tippy,
                     team |-> pairs[k][2].team,
                     league |-> pairs[k][2].league,
                     fifa_edition |-> pairs[k][1].fifa_edition,
                     update |-> pairs[k][1].update]]
    IN  Flatten([k \in 1..Len(pairs) |-> Rows(k)]))

read_players(s, sel, vers, c, team) ==
    With(read_teams(s, sel, vers, c), LAMBDA rt :
    With(FilterTeams(rt.rows, team), LAMBDA iterator :
    With(List(Product(vers, iterator)), LAMBDA pairs :
    LET calls == <<"read_players">> \o rt.calls
    IN  IF ~rt.ok THEN Raised("read_players", rt.err, rt.gets, calls)
        ELSE IF team # None /\ iterator = <<>>
        THEN Raised("read_players", "ValueError: No data found", rt.gets, calls)
        ELSE Returned("read_players", PlayerRows(s, c, pairs),
                      rt.gets \o PlayersGets(pairs), calls))))

(***************************************************************************)
(* read_team_ratings (sofifa.py 287-373).                                  *)
(***************************************************************************)
\* the ids of the ratings dict, in order
RatingIds == <<"oa", "at", "md", "df", "tb", "cw", "bs", "bd", "bp", "bps", "cc",
               "cp", "cs", "cps", "da", "dm", "dw", "dd", "dp", "ip", "ps", "sa",
               "ta">>

\* urlmask with "&showCol[]=<id>" appended for every rating id
RatingsMask == <<TeamsMask, "&showCol[]=", RatingIds>>

\* safe_xpath_text(node, ".//td[@data-col='<key>']//text()"): the text of
\* the cell, None when the row has no such cell
RatingCell(row, key) == IF row.cols THEN <<"7", "5">> ELSE None

\* an order that tells no two rows apart: sorting by it moves no row
LeagueTeamLeq_any(a, b) == TRUE

LeagueTeamLeq(a, b) ==
    \/ StrRank(a.league) < StrRank(b.league)
    \/ StrRank(a.league) = StrRank(b.league) /\ StrRank(a.team) <= StrRank(b.team)

read_team_ratings(s, sel, vers, c) ==
    With(read_leagues(s, sel), LAMBDA rl :
    With(List(Product(rl.rows, vers)), LAMBDA pairs :
    With(rl.gets \o TeamsGets(RatingsMask, pairs), LAMBDA gets :
    LET calls == <<"read_team_ratings">> \o rl.calls
        Rows(k) ==
            LET doc == TeamsDocument(s, Served(c, gets[k + 1].url, gets[k + 1].path))
            IN  [i \in 1..Len(doc) |->
                    [league |-> pairs[k][1].league,
                     team |-> ReplaceTeamName(doc[i].text),
                     ratings |-> [j \in 1..Len(RatingIds) |->
                                     RatingCell(doc[i], RatingIds[j])],
                     fifa_edition |-> pairs[k][2].fifa_edition,
                     update |-> pairs[k][2].update]]
        teams == Flatten([k \in 1..Len(pairs) |-> Rows(k)])
    IN  IF ~rl.ok THEN Raised("read_team_ratings", rl.err, rl.gets, calls)
        ELSE IF teams = <<>> THEN Raised("read_team_ratings", "KeyError", gets, calls)
        ELSE Returned("read_team_ratings", SortRows(teams, LeagueTeamLeq), gets,
                      calls))))

(***************************************************************************)
(* Characters of str values, in code point order.                          *)
(***************************************************************************)
Ascii == <<"\t", "\n", " ", "#", "(", ")", ",", "-", ".", "/",
           "0", "1", "2", "3", "4", "5", "6", "7", "8", "9",
           "A", "B", "C", "D", "E", "F", "G", "H", "I", "J", "K", "L", "M",
           "N", "O", "P", "Q", "R", "S", "T", "U", "V", "W", "X", "Y", "Z", "_",
           "a", "b", "c", "d", "e", "f", "g", "h", "i", "j", "k", "l", "m",
           "n", "o", "p", "q", "r", "s", "t", "u", "v", "w", "x", "y", "z">>

CodePoint(c) == CHOOSE i \in 1..Len(Ascii) : Ascii[i] = c

UpperFirst == CodePoint("A")

LowerFirst == CodePoint("a")

Letters == 26

IsUpper(c) == CodePoint(c) \in UpperFirst..(UpperFirst + Letters - 1)

IsLower(c) == CodePoint(c) \in LowerFirst..(LowerFirst + Letters - 1)

\* str.lower() of one character
ToLower(c) == IF IsUpper(c) THEN Ascii[CodePoint(c) - UpperFirst + LowerFirst] ELSE c

LowerStr(s) == [i \in 1..Len(s) |-> ToLower(s[i])]

\* the classes \d, \w and \s of re
IsDigit(c) == c \in DigitChars

IsWord(c) == IsDigit(c) \/ IsUpper(c) \/ IsLower(c) \/ c = "_"

IsSpace(c) == c \in {" ", "\n", "\t"}

\* str.strip()
Strip(s) ==
    LET keep == {i \in 1..Len(s) : ~IsSpace(s[i])}
    IN  IF keep = {} THEN <<>>
        ELSE SubSeq(s, Min(keep), CHOOSE i \in keep : \A j \in keep : j <= i)

\* s <= u for two str values
RECURSIVE StrLeq(_, _)
StrLeq(s, u) ==
    IF s = <<>> THEN TRUE
    ELSE IF u = <<>> THEN FALSE
    ELSE IF Head(s) # Head(u) THEN CodePoint(Head(s)) < CodePoint(Head(u))
    ELSE StrLeq(Tail(s), Tail(u))

\* int(ds) of a short run of digits
RECURSIVE IntOf(_)
IntOf(ds) == IF ds = <<>> THEN 0
             ELSE 10 * IntOf(SubSeq(ds, 1, Len(ds) - 1)) + DigitVal(ds[Len(ds)])

(***************************************************************************)
(* The biographical line (sofifa.py 481-495): re.match of                  *)
(*   ^(\d+)y\.o\..*?\((\w+\s\d{1,2},\s\d{4})[^)]*\)\s(\d+)cm.*\s(\d+)kg.*?$ *)
(* Positions are indices into the line; a run "from i" that is empty ends  *)
(* at i - 1.                                                               *)
(***************************************************************************)
\* the end of the longest run of characters of a class that starts at i
RunEnd(s, i, In(_)) ==
    CHOOSE j \in (i - 1)..Len(s) :
        /\ \A k \in i..j : In(s[k])
        /\ j = Len(s) \/ ~In(s[j + 1])

\* the literal lit stands at position i
At(s, i, lit) == i >= 1 /\ i + Len(lit) - 1 <= Len(s) /\ SubSeq(s, i, i + Len(lit) - 1) = lit

\* "." matches s[i..j]: no newline in it
NoNewline(s, i, j) == \A k \in i..j : s[k] # "\n"

\* an end that lets nothing follow "kg"
EndMatches_strict(s, i) == i > Len(s)

\* .*?$ matches from i: the rest holds no newline but a last one
EndMatches(s, i) ==
    \/ NoNewline(s, i, Len(s))
    \/ Len(s) >= i /\ s[Len(s)] = "\n" /\ NoNewline(s, i, Len(s) - 1)

\* \s(\d+)kg.*?$ matches at i (the whitespace at i)
WeightAt(s, i) ==
    /\ i <= Len(s) /\ IsSpace(s[i])
    /\ RunEnd(s, i + 1, IsDigit) >= i + 1
    /\ At(s, RunEnd(s, i + 1, IsDigit) + 1, <<"k", "g">>)
    /\ EndMatches(s, RunEnd(s, i + 1, IsDigit) + 3)

\* the places where .* of "cm.*\s(\d+)kg" may stop, .* starting at q
WeightPlaces(s, q) == {i \in q..Len(s) : NoNewline(s, q, i - 1) /\ WeightAt(s, i)}

\* \((\w+\s\d{1,2},\s\d{4})[^)]*\)\s(\d+)cm.*\s(\d+)kg.*?$ matches at i, the
\* parenthesis at i.  w, d: ends of the word and of the day; c: the first
\* closing parenthesis after the year; h: end of the height.
ParenAt(s, i) ==
    LET w == RunEnd(s, i + 1, IsWord)
        d == RunEnd(s, w + 2, IsDigit)
        y == d + 6
        IsClose(k) == s[k] = ")"
        closes == {k \in (y + 1)..Len(s) : IsClose(k)}
        c == Min(closes)
        h == RunEnd(s, c + 2, IsDigit)
    IN  /\ At(s, i, <<"(">>)
        /\ w >= i + 1 /\ w + 1 <= Len(s) /\ IsSpace(s[w + 1])
        /\ d - (w + 1) \in {1, 2}
        /\ At(s, d + 1, <<",">>)
        /\ d + 2 <= Len(s) /\ IsSpace(s[d + 2])
        /\ y <= Len(s) /\ \A k \in (d + 3)..y : IsDigit(s[k])
        /\ closes # {}
        /\ c + 1 <= Len(s) /\ IsSpace(s[c + 1])
        /\ h >= c + 2
        /\ At(s, h + 1, <<"c", "m">>)
        /\ WeightPlaces(s, h + 3) # {}

\* the places where .*? of "y\.o\..*?\(" may stop, .*? starting at p
ParenPlaces(s, p) == {i \in p..Len(s) : NoNewline(s, p, i - 1) /\ ParenAt(s, i)}

BioMatches(s) ==
    /\ RunEnd(s, 1, IsDigit) >= 1
    /\ At(s, RunEnd(s, 1, IsDigit) + 1, <<"y", ".", "o", ".">>)
    /\ ParenPlaces(s, RunEnd(s, 1, IsDigit) + 5) # {}

\* the groups of the match: .*? stops at the first place, .* at the last
BioGroups(s) ==
    LET a == RunEnd(s, 1, IsDigit)
        i == Min(ParenPlaces(s, a + 5))
        w == RunEnd(s, i + 1, IsWord)
        d == RunEnd(s, w + 2, IsDigit)
        IsClose(k) == s[k] = ")"
        c == Min({k \in (d + 7)..Len(s) : IsClose(k)})
        h == RunEnd(s, c + 2, IsDigit)
        places == WeightPlaces(s, h + 3)
        k == CHOOSE x \in places : \A z \in places : z <= x
    IN  [g1 |-> SubSeq(s, 1, a),
         month |-> SubSeq(s, i + 1, w), day |-> SubSeq(s, w + 2, d),
         year |-> SubSeq(s, d + 3, d + 6),
         g3 |-> SubSeq(s, c + 2, h),
         g4 |-> SubSeq(s, k + 1, RunEnd(s, k + 1, IsDigit))]

(***************************************************************************)
(* datetime.strptime(group 2, "%b %d, %Y").strftime("%m-%d") (sofifa.py    *)
(* 493).                                                                   *)
(***************************************************************************)
MonthAbbrs == <<"jan", "feb", "mar", "apr", "may", "jun", "jul", "aug", "sep", "oct",
                "nov", "dec">>

\* the month abbreviation as characters
Spell(i) ==
    CASE i = 1 -> <<"j", "a", "n">> [] i = 2 -> <<"f", "e", "b">>
      [] i = 3 -> <<"m", "a", "r">> [] i = 4 -> <<"a", "p", "r">>
      [] i = 5 -> <<"m", "a", "y">> [] i = 6 -> <<"j", "u", "n">>
      [] i = 7 -> <<"j", "u", "l">> [] i = 8 -> <<"a", "u", "g">>
      [] i = 9 -> <<"s", "e", "p">> [] i = 10 -> <<"o", "c", "t">>
      [] i = 11 -> <<"n", "o", "v">> [] i = 12 -> <<"d", "e", "c">>

\* %b, matched ignoring case: the months the word names (one or none)
MonthsOf(w) == {i \in 1..Len(MonthAbbrs) : Spell(i) = LowerStr(w)}

IsLeap(y) == y % 4 = 0 /\ (y % 100 # 0 \/ y % 400 = 0)

DaysIn(m, y) == IF m = 2 THEN (IF IsLeap(y) THEN 29 ELSE 28)
                ELSE IF m \in {4, 6, 9, 11} THEN 30
                ELSE 31

\* strptime accepts the date of the groups
DateParses(g) ==
    /\ MonthsOf(g.month) # {}
    /\ IntOf(g.year) >= 1
    /\ IntOf(g.day) \in 1..DaysIn(CHOOSE m \in MonthsOf(g.month) : TRUE, IntOf(g.year))

TwoDigits(n) == <<DigitChar(n \div 10), DigitChar(n % 10)>>

\* strftime("%m-%d")
MonthDay(g) ==
    TwoDigits(CHOOSE m \in MonthsOf(g.month) : TRUE) \o <<"-">> \o TwoDigits(IntOf(g.day))

(***************************************************************************)
(* A player page (sofifa.py 466-526) is a record of what the XPath queries *)
(* of read_player_ratings find in it:                                      *)
(*   h1      the profile headings found, each [before, after]: the texts   *)
(*           around its <br>                                               *)
(*   simple_name, pos, avatar, title   the texts found                     *)
(*   bio     the text nodes of the profile paragraph                       *)
(*   script  the second scripts found, each code -> the digits after       *)
(*           "POINT_<code>=", or None when the script has none             *)
(*   skills  label -> the <em> nodes each of the three strategies finds,   *)
(*           in document order; a node is [text]: <<>> when the <em> has   *)
(*           no text (.text is None), else <<the text>>                    *)
(***************************************************************************)
score_labels ==
    <<"Overall rating", "Potential", "Value", "Wage", "Crossing", "Finishing",
      "Heading accuracy", "Short passing", "Volleys", "Dribbling", "Curve",
      "FK Accuracy", "Long passing", "Ball control", "Acceleration", "Sprint speed",
      "Agility", "Reactions", "Balance", "Shot power", "Jumping", "Stamina",
      "Strength", "Long shots", "Aggression", "Interceptions", "Positioning",
      "Vision", "Penalties", "Composure", "Defensive awareness", "Standing tackle",
      "Sliding tackle", "GK Diving", "GK Handling", "GK Kicking", "GK Positioning",
      "GK Reflexes">>

\* the three XPath strategies, in the order of the list xpaths
xpaths == <<"p", "div", "li">>

PointCodes == <<"PAC", "SHO", "PAS", "DRI", "DEF", "PHY">>

\* the strategies of label s that find a node, by their place in xpaths
Matching(page, s) == {k \in 1..Len(xpaths) : page.skills[s][xpaths[k]] # <<>>}

\* the last node of the last strategy that finds one
FirstNode_last(page, s) ==
    LET m == CHOOSE k \in Matching(page, s) : \A j \in Matching(page, s) : j <= k
        nodes == page.skills[s][xpaths[m]]
    IN  IF Matching(page, s) = {} THEN <<>> ELSE <<nodes[Len(nodes)]>>

\* nodes[0] of the first strategy that finds a node; <<>> if none does
FirstNode(page, s) ==
    IF Matching(page, s) = {} THEN <<>>
    ELSE <<page.skills[s][xpaths[Min(Matching(page, s))]][1]>>

\* nodes[0].text.strip() raises AttributeError when the node has no text
NodeFails(page, s) == FirstNode(page, s) # <<>> /\ FirstNode(page, s)[1].text = <<>>

\* scores[s] after line 524
ScoreOf(page, s) ==
    IF FirstNode(page, s) = <<>> THEN None ELSE Strip(FirstNode(page, s)[1].text[1])

\* name_line.split("-")[0].strip()
BeforeDash(s) ==
    LET dashes == {i \in 1..Len(s) : s[i] = "-"}
    IN  Strip(IF dashes = {} THEN s ELSE SubSeq(s, 1, Min(dashes) - 1))

\* next((b for b in basic_info_p if b.strip()), None)
FirstNonBlank(texts) ==
    LET full == {i \in 1..Len(texts) : Strip(texts[i]) # <<>>}
    IN  IF full = {} THEN None ELSE texts[Min(full)]

(***************************************************************************)
(* The body of the loop of read_player_ratings for one (version, player):  *)
(* the scores appended, or the exception raised.                           *)
(***************************************************************************)
NotFoundError(player) ==
    <<"ValueError", "Basic information not found for player {}", player>>

NotRecognizedError(basic_info, player) ==
    <<"ValueError", "Basic information '{}' not recognized for player {}",
      basic_info, player>>

StrptimeError == <<"ValueError", "time data does not match format / out of range">>

\* the labels whose first node has no text, by place in score_labels
FailingLabels(page) == {i \in 1..Len(score_labels) : NodeFails(page, score_labels[i])}

Scores(version, page, g, wage, val) ==
        [player |-> IF Strip(page.h1[1].before) # <<>> THEN Strip(page.h1[1].before)
                    ELSE Strip(page.h1[1].after),
         fifa_edition |-> version.fifa_edition,
         update |-> version.update,
         simple_name |-> page.simple_name[1],
         age |-> IntOf(g.g1),
         birthdate |-> MonthDay(g),
         height |-> IntOf(g.g3),
         weight |-> IntOf(g.g4),
         pos |-> page.pos[1],
         avatar |-> page.avatar[1],
         name |-> BeforeDash(page.title[1]),
         points |-> page.script[1],
         skills |-> [s \in Range(score_labels) |->
                        IF s = "Wage" THEN wage.val
                        ELSE IF s = "Value" THEN val.val
                        ELSE ScoreOf(page, s)]]

ParsePage(player, version, page) ==
    LET Fail(e) == [ok |-> FALSE, err |-> e, scores |-> <<>>]
    IN  With(FirstNonBlank(page.bio), LAMBDA basic_info :
        IF page.h1 = <<>> THEN Fail("IndexError")
        ELSE IF page.simple_name = <<>> THEN Fail("IndexError")
        ELSE IF basic_info = None THEN Fail(NotFoundError(player))
        ELSE IF ~BioMatches(basic_info) THEN Fail(NotRecognizedError(basic_info, player))
        ELSE With(BioGroups(basic_info), LAMBDA g :
        IF ~DateParses(g) THEN Fail(StrptimeError)
        ELSE IF page.pos = <<>> \/ page.avatar = <<>> \/ page.title = <<>>
             THEN Fail("IndexError")
        ELSE IF page.script = <<>> THEN Fail("IndexError")
        ELSE IF \E i \in 1..Len(PointCodes) : page.script[1][PointCodes[i]] = None
             THEN Fail("AttributeError")
        ELSE IF FailingLabels(page) # {} THEN Fail("AttributeError")
        ELSE With(remove_currency(ScoreOf(page, "Wage")), LAMBDA wage :
        IF ~wage.ok THEN Fail(wage.val)
        ELSE With(remove_currency(ScoreOf(page, "Value")), LAMBDA val :
        IF ~val.ok THEN Fail(val.val)
        ELSE [ok |-> TRUE, err |-> None,
              scores |-> Scores(version, page, g, wage, val)]))))

(***************************************************************************)
(* read_player_ratings (sofifa.py 375-531).  player is None, or the list   *)
(* of ids asked for (an int p is the list <<p>>).                          *)
(***************************************************************************)
PlayerMask == "/player/{}/?r={}&set=true"

PlayerPath(player, version_id) == <<"player_{}_{}.html", player, version_id>>

PlayerDocument(s, url) == s.pages[url[2]]

\* Index.unique(): the first occurrence of each value, in order
Unique(xs) ==
    LET first == {i \in 1..Len(xs) : \A j \in 1..(i - 1) : xs[j] # xs[i]}
        Nth(n) == CHOOSE i \in first : Cardinality({j \in first : j < i}) = n - 1
    IN  [n \in 1..Cardinality(first) |-> xs[Nth(n)]]

RatingsGets(pairs) ==
    [k \in 1..Len(pairs) |->
        GetCall(<<PlayerMask, pairs[k][2], pairs[k][1].version_id>>,
                PlayerPath(pairs[k][2], pairs[k][1].version_id), None)]

PlayerLeq(a, b) == StrLeq(a.player, b.player)

\* the loop over product(self.versions.iterrows(), players) and the return
RatingsLoop(s, vers, c, players, gets0, calls) ==
    With(List(Product(vers, players)), LAMBDA pairs :
    With(List(RatingsGets(pairs)), LAMBDA gets :
    With(List([k \in 1..Len(pairs) |->
                 ParsePage(pairs[k][2], pairs[k][1],
                           PlayerDocument(s, Served(c, gets[k].url, gets[k].path)))]),
         LAMBDA parsed :
    LET failed == {k \in 1..Len(pairs) : ~parsed[k].ok}
    IN  IF failed # {}
        THEN Raised("read_player_ratings", parsed[Min(failed)].err,
                    gets0 \o SubSeq(gets, 1, Min(failed)), calls)
        ELSE IF pairs = <<>>
        THEN Raised("read_player_ratings", "KeyError", gets0, calls)
        ELSE Returned("read_player_ratings",
                      SortRows([k \in 1..Len(pairs) |-> parsed[k].scores], PlayerLeq),
                      gets0 \o gets, calls))))

\* read_players is called only when no player is given
read_player_ratings(s, sel, vers, c, team, player) ==
    With(IF player # None THEN Returned(None, <<>>, <<>>, <<>>)
         ELSE read_players(s, sel, vers, c, team), LAMBDA rp :
    LET calls == <<"read_player_ratings">> \o rp.calls
    IN  IF ~rp.ok THEN Raised("read_player_ratings", rp.err, rp.gets, calls)
        ELSE RatingsLoop(s, vers, c,
                         IF player # None THEN player
                         ELSE Unique([i \in 1..Len(rp.rows) |-> rp.rows[i].player_id]),
                         rp.gets, calls))

(***************************************************************************)
(* The website: the documents it serves.                                   *)
(***************************************************************************)
VersionIds == 1..MaxVersion

TeamIds == 1..MaxTeam

Editions == {"FIFA 24", "FIFA 23"}

ENG == 13

ESP == 53

Directory ==
    <<<<[id |-> ESP, nationName |-> "Spain", value |-> "La Liga"]>>,
      <<[id |-> ENG, nationName |-> "England", value |-> "Premier League"],
        [id |-> 14, nationName |-> "England", value |-> "Championship"]>>>>

Option(n) == [href |-> <<"/?r=", n>>, text |-> n]

BadOption == [href |-> <<"/">>, text |-> 0]

\* sequences over S without repetition, of length at most n
Arrangements(S, n) ==
    {q \in SeqsUpTo(S, n) : \A i, j \in 1..Len(q) : i # j => q[i] # q[j]}

\* the site as it is: the newest edition lists the versions from MaxVersion
\* down to 2, the edition before it version 1
StandardUpdates ==
    [e \in Editions |->
        IF e = "FIFA 24" THEN [i \in 1..(MaxVersion - 1) |-> Option(MaxVersion + 1 - i)]
        ELSE <<Option(1)>>]

CanonicalBio ==
    <<"2", "3", "y", ".", "o", ".", " ", "(", "F", "e", "b", " ", "5", ",", " ",
      "2", "0", "0", "1", ")", " ", "1", "8", "0", "c", "m", " ", "/", " ", "7", "5",
      "k", "g">>

\* an <em> node with a text
Em(text) == [text |-> <<text>>]

\* an <em> node without
EmptyEm == [text |-> <<>>]

DefaultSkills ==
    [s \in Range(score_labels) |->
        [p |-> <<Em(IF s \in {"Wage", "Value"} THEN <<"E", "1", ".", "2", "M">>
                    ELSE <<"7", "1">>)>>,
         div |-> <<>>, li |-> <<>>]]

DefaultPage(player) ==
    [h1 |-> <<[before |-> PlayerNames[player], after |-> <<>>]>>,
     simple_name |-> <<PlayerNames[player]>>,
     bio |-> <<<<"\n", " ">>, CanonicalBio>>,
     pos |-> <<<<"S", "T">>>>,
     avatar |-> <<<<"#">>>>,
     title |-> <<PlayerNames[player] \o <<" ", "-", " ", "F", "C", " ", "2", "4">>>>,
     script |-> <<[c \in Range(PointCodes) |-> <<"8", "0">>]>>,
     skills |-> DefaultSkills]

DefaultPages == [t \in TeamIds |-> DefaultPage(t)]

\* every team in the English league, at every version
AllEnglish == [v \in VersionIds |-> [t \in TeamIds |-> ENG]]

Site(home, updates, league_of, pages) ==
    [home |-> home, updates |-> updates, directory |-> Directory,
     league_of |-> league_of, pages |-> pages]

\* sites that differ in the editions and updates they list
VersionSites ==
    {Site(home, updates, AllEnglish, DefaultPages) :
        home \in Arrangements(Editions, Cardinality(Editions)),
        updates \in [Editions ->
                       Arrangements({Option(n) : n \in VersionIds} \cup {BadOption},
                                    MaxUpdates)]}

\* sites that differ in the leagues of the teams: team 1 plays in the
\* English league up to some version and in the Spanish one after it
LeagueTables ==
    {[v \in VersionIds |-> [t \in TeamIds |-> IF t = 1 /\ v > last THEN ESP ELSE ENG]] :
        last \in 0..MaxVersion}

CrawlSites ==
    {Site(<<"FIFA 24", "FIFA 23">>, StandardUpdates, lo, DefaultPages) :
        lo \in LeagueTables}

(***************************************************************************)
(* The operations as actions.  Every call leaves its outcome in result and *)
(* the documents it fetched in the cache.                                  *)
(***************************************************************************)
Selectors ==
    [kind : {"str"}, val : {"latest", "all", "newest"}]
    \cup [kind : {"int"}, val : 1..(MaxVersion + 1)]
    \cup [kind : {"list"}, val : Arrangements(1..(MaxVersion + 1), MaxListed)]
    \cup [kind : {"strlist"}, val : {<<"latest">>}]
    \cup [kind : {"float"}, val : {<<"2", ".", "5">>}]

\* values given as team=
TeamFilters ==
    <<None, <<"Arsenal">>, <<"Spurs">>, <<"Nonexistent FC">>, <<"Chelsea", "Tottenham">>>>

\* the arguments of read_player_ratings; team is not read when player is
\* given
RatingsArgs ==
    <<[team |-> None, player |-> None],
      [team |-> <<"Chelsea", "Tottenham">>, player |-> None],
      [team |-> <<"Nonexistent FC">>, player |-> None],
      [team |-> None, player |-> <<2, 1>>]>>

Call(call, args) ==
    \E r \in {call} :
        /\ result' = Outcome(r, args)
        /\ cache' = StoreAll(cache, r.gets)

\* SoFIFA(versions=sel)
Init__(sel) ==
    /\ phase = "new"
    /\ Call(Construct(site, sel), <<sel>>)
    /\ phase' = IF Construct(site, sel).ok THEN "ready" ELSE "failed"
    /\ versions' = Construct(site, sel).rows
    /\ UNCHANGED <<site, selected, cur_in, cur_out>>

ReadVersions ==
    /\ phase = "ready"
    /\ Call(read_versions(site), <<>>)
    /\ UNCHANGED <<site, selected, versions, phase, cur_in, cur_out>>

ReadLeagues ==
    /\ phase = "ready"
    /\ Call(read_leagues(site, selected), <<>>)
    /\ UNCHANGED <<site, selected, versions, phase, cur_in, cur_out>>

ReadTeams ==
    /\ phase = "ready"
    /\ Call(read_teams(site, selected, versions, cache), <<>>)
    /\ UNCHANGED <<site, selected, versions, phase, cur_in, cur_out>>

ReadPlayers(team) ==
    /\ phase = "ready"
    /\ Call(read_players(site, selected, versions, cache, team), <<team>>)
    /\ UNCHANGED <<site, selected, versions, phase, cur_in, cur_out>>

ReadTeamRatings ==
    /\ phase = "ready"
    /\ Call(read_team_ratings(site, selected, versions, cache), <<>>)
    /\ UNCHANGED <<site, selected, versions, phase, cur_in, cur_out>>

ReadPlayerRatings(team, player) ==
    /\ phase = "ready"
    /\ Call(read_player_ratings(site, selected, versions, cache, team, player),
            <<team, player>>)
    /\ UNCHANGED <<site, selected, versions, phase, cur_in, cur_out>>

(***************************************************************************)
(* Construction: a new reader on an empty data directory is given a        *)
(* versions selector; read_versions may be called on the reader built.     *)
(***************************************************************************)
InitNew ==
    /\ site \in VersionSites
    /\ selected = <<"ENG-Premier League">>
    /\ versions = <<>>
    /\ phase = "new"
    /\ cache = EmptyCache
    /\ result = NoCall
    /\ cur_in = <<>> /\ cur_out = <<>>

NextNew == (\E sel \in Selectors : Init__(sel)) \/ ReadVersions

SpecNew == InitNew /\ [][NextNew]_vars

(***************************************************************************)
(* The reader after construction, with the cache switched off: any         *)
(* sequence of read calls.                                                 *)
(***************************************************************************)
Selections == Arrangements({"ENG-Premier League", "ESP-La Liga"}, 2) \ {<<>>}

\* self.versions as __init__ leaves it
VersionTables(s) == {Construct(s, sel).rows : sel \in {x \in Selectors : Construct(s, x).ok}}

Init ==
    /\ site \in CrawlSites
    /\ selected \in Selections
    /\ versions \in VersionTables(site)
    /\ phase = "ready"
    /\ cache = NoStore
    /\ result = NoCall
    /\ cur_in = <<>> /\ cur_out = <<>>

\* with the cache off a call leaves nothing behind that a later call reads
\* (self.get is all a read writes), so every call is taken from the state
\* the construction left
Fresh == result = NoCall

Next ==
    \/ Fresh /\ ReadVersions
    \/ Fresh /\ ReadLeagues
    \/ Fresh /\ ReadTeams
    \/ Fresh /\ \E i \in 1..Len(TeamFilters) : ReadPlayers(TeamFilters[i])
    \/ Fresh /\ ReadTeamRatings
    \/ Fresh /\ \E i \in 1..Len(RatingsArgs) :
                  ReadPlayerRatings(RatingsArgs[i].team, RatingsArgs[i].player)

Spec == Init /\ [][Next]_vars

(***************************************************************************)
(* The reader after construction on an empty data directory, with the      *)
(* cache in use (no_cache and no_store are off by default): any sequence   *)
(* of read calls, each finding the files the calls before it stored.  The  *)
(* reader was built for several versions; players are read for all teams   *)
(* or for two of them, ratings for all players.                            *)
(***************************************************************************)
InitCache ==
    /\ site \in CrawlSites
    /\ selected \in Selections
    /\ versions \in {vt \in VersionTables(site) : Len(vt) > 1}
    /\ phase = "ready"
    /\ cache = EmptyCache
    /\ result = NoCall
    /\ cur_in = <<>> /\ cur_out = <<>>

NextCache ==
    \/ ReadVersions
    \/ ReadLeagues
    \/ ReadTeams
    \/ \E i \in {1, Len(TeamFilters)} : ReadPlayers(TeamFilters[i])
    \/ ReadTeamRatings
    \/ ReadPlayerRatings(RatingsArgs[1].team, RatingsArgs[1].player)

SpecCache == InitCache /\ [][NextCache]_vars

(***************************************************************************)
(* Player pages: read_player_ratings(player=1) on sites that differ in the *)
(* page of player 1.  The page differs from the usual one in the nodes     *)
(* found for one skill label, in its biographical line, or in lacking a    *)
(* part.                                                                   *)
(***************************************************************************)
\* the text of node k of strategy a: a number between blanks, an amount
\* for the currency labels
NodeText(s, a, k) ==
    IF s \in {"Wage", "Value"} THEN <<"E", DigitChar(a), ".", DigitChar(k), "M">>
    ELSE <<" ", DigitChar(a), DigitChar(k), "\n">>

\* the nodes strategy a may find: none, or up to MaxNodes of them, the
\* first of which may have no text
NodeLists(s, a) ==
    {<<>>} \cup
    {[k \in 1..n |-> IF k = 1 /\ empty THEN EmptyEm ELSE Em(NodeText(s, a, k))] :
        n \in 1..MaxNodes, empty \in BOOLEAN}

VariedLabels == {"Crossing", "Wage", "Value"}

SkillPagesOf(s) ==
    {[DefaultPage(1) EXCEPT !.skills[s] = [p |-> np, div |-> nd, li |-> nl]] :
        np \in NodeLists(s, 1), nd \in NodeLists(s, 2), nl \in NodeLists(s, 3)}

SkillPages == UNION {SkillPagesOf(s) : s \in VariedLabels}

\* the parts a biographical line is put together from
BioParts ==
    [lead : {<<>>, <<" ">>},
     age : {<<"2", "3">>},
     gap : {<<" ">>, <<" ", "x", " ">>},
     month : {<<"F", "e", "b">>, <<"D", "e", "c">>, <<"F", "o", "o">>},
     day : {<<"5">>, <<"3", "0">>},
     extra : {<<>>, <<" ", "x">>},
     cm : {<<"c", "m">>, <<>>},
     mid : {<<" ", "/", " ">>, <<" ">>},
     kg : {<<"k", "g">>, <<>>},
     trail : {<<>>, <<" ", "x">>}]

BioLine(b) ==
    b.lead \o b.age \o <<"y", ".", "o", ".">> \o b.gap \o <<"(">> \o b.month
    \o <<" ">> \o b.day \o <<",", " ", "2", "0", "0", "1">> \o b.extra
    \o <<")", " ", "1", "8", "0">> \o b.cm \o b.mid \o <<"7", "5">> \o b.kg
    \o b.trail

BioPages ==
    {[DefaultPage(1) EXCEPT !.bio = <<<<"\n", " ">>, BioLine(b)>>] : b \in BioParts}

\* pages that lack the heading, any text in the profile paragraph, the
\* position, or the script
LackingPages ==
    {[DefaultPage(1) EXCEPT !.h1 = <<>>],
     [DefaultPage(1) EXCEPT !.bio = <<<<"\n", " ">>>>],
     [DefaultPage(1) EXCEPT !.bio = <<>>],
     [DefaultPage(1) EXCEPT !.pos = <<>>],
     [DefaultPage(1) EXCEPT !.script = <<>>]}

RatingSites ==
    {Site(<<"FIFA 24", "FIFA 23">>, StandardUpdates, AllEnglish,
          [t \in TeamIds |-> IF t = 1 THEN page ELSE DefaultPage(t)]) :
        page \in SkillPages \cup BioPages \cup LackingPages}

InitRatings ==
    /\ site \in RatingSites
    /\ selected = <<"ENG-Premier League">>
    /\ versions = Construct(site, [kind |-> "str", val |-> "latest"]).rows
    /\ phase = "ready"
    /\ cache = NoStore
    /\ result = NoCall
    /\ cur_in = <<>> /\ cur_out = <<>>

NextRatings == Fresh /\ ReadPlayerRatings(None, <<1>>)

SpecRatings == InitRatings /\ [][NextRatings]_vars

(***************************************************************************)
(* Specification of remove_currency as a pure function: a currency text    *)
(* is an optional sign, a numeric body and a suffix; the function is       *)
(* applied, and may be applied again to what it returned.                  *)
(***************************************************************************)
BodyChars == {"0", "1", "2", "4", "5", "."}

CurPrefixes == {<<>>, <<"E">>}           \* "E" stands for the euro sign

CurSuffixes == {<<>>, <<"M">>, <<"K">>, <<"K", "M">>}

CurrencyTexts ==
    {p \o b \o x : p \in CurPrefixes, b \in SeqsUpTo(BodyChars, MaxBody),
                   x \in CurSuffixes}

Unset == [ok |-> FALSE, val |-> "unset"]

InitCurrency ==
    /\ cur_in \in [text : CurrencyTexts, from_output : {FALSE}]
    /\ cur_out = Unset
    /\ site = <<>> /\ selected = <<>> /\ versions = <<>>
    /\ phase = "pure" /\ cache = NoStore /\ result = NoCall

RemoveCurrency ==
    /\ cur_out = Unset
    /\ cur_out' = remove_currency(cur_in.text)
    /\ UNCHANGED <<site, selected, versions, phase, cache, result, cur_in>>

\* feed the returned string back in
Reapply ==
    /\ cur_out.ok
    /\ cur_in' = [text |-> cur_out.val, from_output |-> TRUE]
    /\ cur_out' = Unset
    /\ UNCHANGED <<site, selected, versions, phase, cache, result>>

NextCurrency == RemoveCurrency \/ Reapply

SpecCurrency == InitCurrency /\ [][NextCurrency]_vars

(***************************************************************************)
(* C8.  remove_currency.                                                   *)
(***************************************************************************)
\* the claim's arithmetic, done exactly: the digits and point of s read as a
\* decimal number, times the multiplier of the suffix, truncated
LastChar(s) == IF s = <<>> THEN "" ELSE s[Len(s)]

SuffixMultiplier(s) == IF LastChar(s) = "M" THEN 1000000
                       ELSE IF LastChar(s) = "K" THEN 1000
                       ELSE 1

ExactTruncation(s) ==
    LET d == DigitalPart(s)
        NotPoint(c) == c # "."
        k == IF Dots(d) = {} THEN 0 ELSE Len(d) - (CHOOSE i \in Dots(d) : TRUE)
        n == DigitsToNat(SelectSeq(d, NotPoint), <<>>)
        p == IF SuffixMultiplier(s) = 1 THEN n
             ELSE IF SuffixMultiplier(s) = 1000 THEN MulAdd(n, 1000, 0)
             ELSE MulAdd(MulAdd(n, 1000, 0), 1000, 0)
    IN  NatToDecimal(DivPow10(p, k, FALSE).q)

\* C8: whenever remove_currency returns, it returns the decimal string of
\* the integer obtained by stripping every character that is not a digit or
\* a point, reading the rest as a number, multiplying by 1,000,000 for an
\* 'M' suffix, 1,000 for a 'K' suffix and 1 otherwise, and truncating; and
\* applied to one of its own results it returns that result unchanged.
C8_ExactTruncation ==
    cur_out.ok =>
        /\ cur_out.val = ExactTruncation(cur_in.text)
        /\ cur_in.from_output => cur_out.val = cur_in.text

\* the 4.1 million of "E4.1M" came back one short
C8_FloatTruncation ==
    /\ cur_in.text = <<"E", "4", ".", "1", "M">>
    /\ cur_out = [ok |-> TRUE, val |-> <<"4", "0", "9", "9", "9", "9", "9">>]

\* the parts of C8 that the code does satisfy: the three examples of the
\* claim, and idempotence on its own results
C8_Examples ==
    /\ cur_in.text = <<"E", "1", ".", "2", "M">> /\ cur_out # Unset
          => cur_out = [ok |-> TRUE, val |-> <<"1", "2", "0", "0", "0", "0", "0">>]
    /\ cur_in.text = <<"E", "5", "0", "0", "K">> /\ cur_out # Unset
          => cur_out = [ok |-> TRUE, val |-> <<"5", "0", "0", "0", "0", "0">>]
    /\ cur_in.text = <<"E", "0">> /\ cur_out # Unset
          => cur_out = [ok |-> TRUE, val |-> <<"0">>]

C8_Idempotent ==
    cur_in.from_output /\ cur_out # Unset
        => cur_out = [ok |-> TRUE, val |-> cur_in.text]

(***************************************************************************)
(* Claims about read_versions and the construction, under SpecNew.         *)
(***************************************************************************)
\* the version ids the update selectors of the site list
ListedIds(s) ==
    UNION {{VersionIdOfHref(o.href) :
               o \in {x \in Range(s.updates[e]) : HrefMatches(x.href)}} :
           e \in Range(s.home)}

IdsOf(rows) == {rows[i].version_id : i \in 1..Len(rows)}

Max(S) == CHOOSE x \in S : \A y \in S : y <= x

\* C5: the table read_versions returns has unique version_ids, strictly
\* increasing in row order, also when two editions list the same update
C5_UniqueIncreasing ==
    (result.call = "read_versions" /\ result.ok) =>
        \A i, j \in 1..Len(result.rows) :
            i < j => result.rows[i].version_id < result.rows[j].version_id

\* read_versions returned two rows of the same version_id, one per edition
C5_DuplicateId ==
    /\ result.call = "read_versions" /\ result.ok
    /\ \E i, j \in 1..Len(result.rows) :
           /\ i < j
           /\ result.rows[i].version_id = result.rows[j].version_id
           /\ result.rows[i].fifa_edition # result.rows[j].fifa_edition

\* the selector the construction was given
Selector == result.args[1]

IsLatest(sel) == sel.kind = "str" /\ sel.val = "latest"

\* C6: a reader constructed with versions="latest" holds exactly one
\* version, and its version_id is the greatest the site lists, whatever the
\* order of the editions and of the updates
C6_LatestIsMax ==
    (result.call = "__init__" /\ result.ok /\ IsLatest(Selector)) =>
        /\ Len(versions) = 1
        /\ versions[1].version_id = Max(ListedIds(site))

\* "latest" on a site whose first listed update is not the newest one
C6_LatestOutOfOrder ==
    /\ result.call = "__init__" /\ result.ok /\ IsLatest(Selector)
    /\ site.updates[site.home[1]] # <<>>
    /\ VersionIdOfHref(site.updates[site.home[1]][1].href) < Max(ListedIds(site))
    /\ versions[1].version_id = Max(ListedIds(site))

\* the selector has none of the accepted forms
WrongForm(sel) ==
    \/ sel.kind \in {"strlist", "float"}
    \/ sel.kind = "str" /\ sel.val \notin {"latest", "all"}

\* the version_ids an int or a list of ints names
Named(sel) == IF sel.kind = "int" THEN {sel.val} ELSE Range(sel.val)

\* the selector names a version_id that the site does not list
NamesAbsent(sel) ==
    sel.kind \in {"int", "list"} /\ ~(Named(sel) \subseteq ListedIds(site))

\* C7 as stated: a selector of a wrong form, or one naming a version_id
\* that does not exist, fails the construction before any entity parser
\* runs and before any document is fetched
C7_NoParserNoFetch ==
    (result.call = "__init__" /\ (WrongForm(Selector) \/ NamesAbsent(Selector))) =>
        ~result.ok /\ result.calls = <<>> /\ result.gets = <<>>

\* C7, amended: a selector of a wrong form fails the construction with
\* ValueError before any parser runs and before any fetch; a selector
\* naming an absent version_id fails it too, but only after read_versions,
\* and no other parser, has run and fetched the home document
C7_Validation ==
    result.call = "__init__" =>
        /\ WrongForm(Selector) =>
              /\ ~result.ok /\ result.err = "ValueError"
              /\ result.calls = <<>> /\ result.gets = <<>>
        /\ NamesAbsent(Selector) =>
              /\ ~result.ok /\ result.err \in {"KeyError", "AttributeError"}
              /\ result.calls = <<"read_versions">>
              /\ result.gets # <<>> /\ result.gets[1].path = IndexPath
        /\ ~result.ok => versions = <<>> /\ phase = "failed"

\* an int selector naming an absent version_id, on a site whose versions
\* read_versions could list: KeyError after the documents were fetched
C7_AbsentIdAfterFetch ==
    /\ result.call = "__init__" /\ Selector.kind = "int" /\ NamesAbsent(Selector)
    /\ ListedIds(site) # {}
    /\ result.err = "KeyError" /\ Len(result.gets) = 1 + Len(site.home)

(***************************************************************************)
(* Claims about the read calls, under Spec.                                *)
(***************************************************************************)
\* the Team records of the reader
TeamRecords == read_teams(site, selected, versions, cache).rows

SameVersion(a, b) == a.fifa_edition = b.fifa_edition /\ a.update = b.update

\* C3: the league of every Player record read_players returns is the
\* league of the Team record of the same team and the same version; no
\* record has the version fields of one version and the league of another
C3_LeagueOfSameVersion ==
    (result.call = "read_players" /\ result.ok) =>
        \A i \in 1..Len(result.rows) : \A k \in 1..Len(TeamRecords) :
            (TeamRecords[k].team = result.rows[i].team
                /\ SameVersion(TeamRecords[k], result.rows[i]))
            => result.rows[i].league = TeamRecords[k].league

\* a Player record with the fields of one version and the league the team
\* plays in at another
C3_MixedSnapshot ==
    /\ result.call = "read_players" /\ result.ok
    /\ \E i \in 1..Len(result.rows) : \E k, m \in 1..Len(TeamRecords) :
           /\ TeamRecords[k].team = result.rows[i].team
           /\ TeamRecords[m].team = result.rows[i].team
           /\ SameVersion(TeamRecords[k], result.rows[i])
           /\ ~SameVersion(TeamRecords[m], result.rows[i])
           /\ result.rows[i].league = TeamRecords[m].league
           /\ result.rows[i].league # TeamRecords[k].league

\* the call was read_players with a team filter that no Team record matches
FilterMatchesNothing ==
    /\ result.call = "read_players" /\ result.args[1] # None
    /\ \A k \in 1..Len(TeamRecords) :
           TeamRecords[k].team \notin add_standardized_team_name(result.args[1])

IsRosterGet(g) == g.path[1] = PlayersPath(0, 0)[1]

\* C4 as stated: read_players with a team filter matching no team row
\* fails with the no-data error, and no self.get is made in that call
\* (stated here for the readers whose read_teams returns a table)
C4_NoFetch ==
    (FilterMatchesNothing /\ TeamRecords # <<>>) =>
        /\ ~result.ok /\ result.err = "ValueError: No data found"
        /\ result.gets = <<>>

\* C4, amended: when read_teams returns a table and the team filter
\* matches none of its rows, read_players fails with the no-data error
\* after read_teams has fetched the league list and the team listings, and
\* before any roster document is fetched
C4_NoDataAfterTeams ==
    (FilterMatchesNothing /\ TeamRecords # <<>>) =>
        /\ ~result.ok /\ result.err = "ValueError: No data found"
        /\ result.calls = <<"read_players", "read_teams", "read_leagues">>
        /\ Len(result.gets) = 1 + Len(selected) * Len(versions)
        /\ result.gets[1].path = LeaguesPath
        /\ \A k \in 1..Len(result.gets) : ~IsRosterGet(result.gets[k])

\* the filter named a club that is in no listing, and the listings were
\* fetched before the error
C4_NoDataWithFetches ==
    /\ FilterMatchesNothing /\ result.args[1] = <<"Nonexistent FC">>
    /\ result.err = "ValueError: No data found"
    /\ Len(result.gets) >= 3

\* whether the index of row a is at most that of row b, for the table a
\* call returns: version_id, league, team_id, player_id, (league, team)
\* and player
IndexLeq(call, a, b) ==
    CASE call = "read_versions" -> a.version_id <= b.version_id
      [] call = "read_leagues" -> StrRank(a.league) <= StrRank(b.league)
      [] call = "read_teams" -> a.team_id <= b.team_id
      [] call = "read_players" -> a.player_id <= b.player_id
      [] call = "read_team_ratings" ->
            \/ StrRank(a.league) < StrRank(b.league)
            \/ a.league = b.league /\ StrRank(a.team) <= StrRank(b.team)
      [] call = "read_player_ratings" -> StrLeq(a.player, b.player)

SortedByIndex ==
    \A i, j \in 1..Len(result.rows) :
        i < j => IndexLeq(result.call, result.rows[i], result.rows[j])

\* the place of a league among the selected ones, of a version among the
\* versions of the reader
LeaguePlace(l) == CHOOSE i \in 1..Len(selected) : selected[i] = l

VersionPlace(r) == CHOOSE i \in 1..Len(versions) : SameVersion(versions[i], r)

\* C10 as stated: every table a read call returns is sorted by its index
C10_AllSorted == (result.call # None /\ result.ok) => SortedByIndex

\* C10, amended: the tables of read_versions, read_team_ratings and
\* read_player_ratings are sorted by their index; read_leagues returns its
\* rows in the order the leagues were selected in, read_teams in the order
\* of the league x version product and read_players in the order of the
\* version x team product
C10_Order ==
    (result.call # None /\ result.ok) =>
        /\ result.call \in {"read_versions", "read_team_ratings", "read_player_ratings"}
              => SortedByIndex
        /\ result.call = "read_leagues" =>
              /\ Len(result.rows) = Len(selected)
              /\ \A i \in 1..Len(selected) : result.rows[i].league = selected[i]
        /\ result.call = "read_teams" =>
              \A i, j \in 1..Len(result.rows) : i < j =>
                  \/ LeaguePlace(result.rows[i].league) < LeaguePlace(result.rows[j].league)
                  \/ /\ result.rows[i].league = result.rows[j].league
                     /\ VersionPlace(result.rows[i]) <= VersionPlace(result.rows[j])
        /\ result.call = "read_players" =>
              \A i, j \in 1..Len(result.rows) : i < j =>
                  VersionPlace(result.rows[i]) <= VersionPlace(result.rows[j])

\* read_team_ratings went through the Spanish league before the English
\* one, and returned the English rows first
C10_SortedAgainstIteration ==
    /\ result.call = "read_team_ratings" /\ result.ok
    /\ selected = <<"ESP-La Liga", "ENG-Premier League">>
    /\ Len(result.rows) >= 2
    /\ result.rows[1].league = "ENG-Premier League"
    /\ result.rows[Len(result.rows)].league = "ESP-La Liga"

(***************************************************************************)
(* Claims about read_player_ratings, under SpecRatings.                    *)
(***************************************************************************)
\* the page of the player read, and the record returned for it
ThePage == site.pages[1]

TheRecord == result.rows[1]

IsRatingsCall == result.call = "read_player_ratings"

\* the first node of the first of the strategies paragraph, div, list item
\* that finds a node; <<>> when none finds one
Expected(s) ==
    LET found == ThePage.skills[s]
    IN  IF found.p # <<>> THEN <<found.p[1]>>
        ELSE IF found.div # <<>> THEN <<found.div[1]>>
        ELSE IF found.li # <<>> THEN <<found.li[1]>>
        ELSE <<>>

\* what is kept of the text of a node: the text without the blanks around
\* it, and for "Wage" and "Value" the amount it stands for
Kept(s, text) ==
    IF s \in {"Wage", "Value"} THEN remove_currency(Strip(text)).val ELSE Strip(text)

\* C1: for every skill label the strategies are tried in the order
\* paragraph, div, list item; the value stored is the text of the first
\* node of the first strategy that finds a node, whatever the later
\* strategies find; when only the third finds one, it is its first node
C1_FirstStrategyFirstNode ==
    (IsRatingsCall /\ result.ok) =>
        \A s \in Range(score_labels) :
            Expected(s) # <<>> =>
                /\ Expected(s)[1].text # <<>>
                /\ TheRecord.skills[s] = Kept(s, Expected(s)[1].text[1])

\* only the third strategy found nodes for "Crossing", two of them, and the
\* text of the first was stored
C1_OnlyThirdMatches ==
    /\ IsRatingsCall /\ result.ok
    /\ ThePage.skills["Crossing"].p = <<>> /\ ThePage.skills["Crossing"].div = <<>>
    /\ Len(ThePage.skills["Crossing"].li) >= 2
    /\ TheRecord.skills["Crossing"] = <<"3", "1">>

\* the page is the usual one but for label s, for which no strategy finds
\* a node
OnlyMissing(s) ==
    /\ ThePage = [DefaultPage(1) EXCEPT !.skills[s] = ThePage.skills[s]]
    /\ Expected(s) = <<>>

\* C2: a skill label, "Wage" and "Value" included, for which none of the
\* three strategies finds a node is null in the record of the player, and
\* the record is returned all the same
C2_MissingIsNull ==
    IsRatingsCall =>
        \A s \in Range(score_labels) :
            OnlyMissing(s) =>
                /\ result.ok /\ Len(result.rows) = 1
                /\ TheRecord.skills[s] = None

\* no strategy found a node for "Wage": the call raised TypeError
C2_WageMissingFails ==
    /\ IsRatingsCall /\ OnlyMissing("Wage")
    /\ ~result.ok /\ result.err = "TypeError" /\ result.rows = <<>>

\* the part of C2 the code satisfies: a label other than "Wage" and
\* "Value" that no strategy finds is None in the record returned
C2_PlainMissingIsNull ==
    IsRatingsCall =>
        \A s \in Range(score_labels) \ {"Wage", "Value"} :
            OnlyMissing(s) => result.ok /\ TheRecord.skills[s] = None

\* the page is the usual one with the line put together from the parts b
MadeFrom(b) == ThePage = [DefaultPage(1) EXCEPT !.bio = <<<<"\n", " ">>, BioLine(b)>>]

\* the number of the month a line names, 0 for a word that names none
MonthNumber(b) ==
    IF b.month = <<"F", "e", "b">> THEN 2
    ELSE IF b.month = <<"D", "e", "c">> THEN 12
    ELSE 0

\* the line names a day of the calendar
IsDate(b) == MonthNumber(b) = 12 \/ (MonthNumber(b) = 2 /\ b.day = <<"5">>)

\* the line has the form "<age>y.o. (<Mon> <day>, <year>) <height>cm /
\* <weight>kg" and nothing else
InGrammar(b) ==
    /\ b.lead = <<>> /\ b.gap = <<" ">> /\ IsDate(b) /\ b.extra = <<>>
    /\ b.cm = <<"c", "m">> /\ b.mid = <<" ", "/", " ">> /\ b.kg = <<"k", "g">>
    /\ b.trail = <<>>

\* the record holds the age, the birthdate as "MM-DD", the height and the
\* weight of the line
Parsed(b) ==
    /\ result.ok /\ Len(result.rows) = 1
    /\ TheRecord.age = 23
    /\ TheRecord.birthdate =
          TwoDigits(MonthNumber(b)) \o <<"-">> \o TwoDigits(IF b.day = <<"5">> THEN 5 ELSE 30)
    /\ TheRecord.height = 180 /\ TheRecord.weight = 75

\* the call failed with the error that quotes the line and names the player
NotRecognized(b) ==
    ~result.ok /\ result.rows = <<>> /\ result.err = NotRecognizedError(BioLine(b), 1)

\* C9 as stated: a line of the grammar yields age, birthdate, height and
\* weight; every other line, one lacking "cm" or "kg" among them, makes the
\* call fail with a parse error naming the player, and no record is emitted
C9_StrictGrammar ==
    IsRatingsCall =>
        \A b \in BioParts :
            MadeFrom(b) => IF InGrammar(b) THEN Parsed(b) ELSE NotRecognized(b)

\* C9, amended: a line of the grammar yields age, birthdate, height and
\* weight; a line lacking "cm" or "kg", or not starting with the age, makes
\* the call fail with the error naming the player; any other line is
\* parsed like one of the grammar, whatever stands between "y.o." and the
\* parenthesis, after the year, between "cm" and the weight and after
\* "kg", but when its date is none that strptime accepts the call fails
\* with the error of strptime, which does not name the player
C9_BioParse ==
    IsRatingsCall =>
        \A b \in BioParts :
            MadeFrom(b) =>
                /\ InGrammar(b) => Parsed(b)
                /\ (b.cm = <<>> \/ b.kg = <<>> \/ b.lead # <<>>) => NotRecognized(b)
                /\ (b.cm # <<>> /\ b.kg # <<>> /\ b.lead = <<>>) =>
                      IF IsDate(b) THEN Parsed(b)
                      ELSE ~result.ok /\ result.rows = <<>> /\ result.err = StrptimeError

\* a line with text in all four places was parsed
C9_LenientLineParsed ==
    /\ IsRatingsCall /\ result.ok
    /\ \E b \in BioParts :
           /\ MadeFrom(b)
           /\ b.gap = <<" ", "x", " ">> /\ b.extra = <<" ", "x">>
           /\ b.mid = <<" ">> /\ b.trail = <<" ", "x">>
           /\ TheRecord.birthdate = <<"0", "2", "-", "0", "5">>


(***************************************************************************)
(* Claims about the cache (SpecCache).                                     *)
(***************************************************************************)
\* the URL the file at a path was fetched from
StoredUrl(path) == cache.files[path]

IsTeamsPath(path) == path[1] = "teams_{}_{}.html"

\* whether a URL of a team listing asks for the rating columns
WithColumns(url) == url[1] # TeamsMask

\* whether the file at the path of a self.get was fetched from its URL
SameUrl(g) ==
    IF IsTeamsPath(g.path)
    THEN /\ WithColumns(StoredUrl(g.path)) = WithColumns(g.url)
         /\ Tail(StoredUrl(g.path)) = Tail(g.url)
    ELSE StoredUrl(g.path) = g.url

\* the rating cells of the rows of a table of read_team_ratings
AllColumns(rows) ==
    \A i \in 1..Len(rows) : \A j \in 1..Len(RatingIds) : rows[i].ratings[j] # None

\* C11: within one cache directory, for any sequence of read calls, a cache
\* path is never used for two different URLs: every self.get of a call names
\* the URL the file at its path was fetched from; and the page
\* read_team_ratings parses was requested with all rating columns enabled,
\* so every rating cell of its table is there.
C11_PathNeverShared ==
    /\ \A k \in 1..Len(result.gets) :
          result.gets[k].path \in DOMAIN cache.files => SameUrl(result.gets[k])
    /\ (result.call = "read_team_ratings" /\ result.ok) => AllColumns(result.rows)

\* read_team_ratings after read_teams: the file teams_<league>_<version>.html
\* holds the page fetched without the rating columns, read_team_ratings is
\* handed that file, and its table has a row with no rating at all
C11_RatingsFromPlainListing ==
    /\ result.call = "read_team_ratings" /\ result.ok
    /\ \E k \in 1..Len(result.gets) :
          /\ IsTeamsPath(result.gets[k].path)
          /\ WithColumns(result.gets[k].url)
          /\ ~WithColumns(StoredUrl(result.gets[k].path))
    /\ \E i \in 1..Len(result.rows) :
          \A j \in 1..Len(RatingIds) : result.rows[i].ratings[j] = None

\* read_teams after read_team_ratings: the same file holds the page fetched
\* with the rating columns, and read_teams is handed it
C11_TeamsFromRatingsListing ==
    /\ result.call = "read_teams" /\ result.ok
    /\ \E k \in 1..Len(result.gets) :
          /\ IsTeamsPath(result.gets[k].path)
          /\ ~WithColumns(result.gets[k].url)
          /\ WithColumns(StoredUrl(result.gets[k].path))

====
